---------------------------- MODULE Spec2Model ----------------------------
(***************************************************************************)
(* A model of the terminal renderer: the Grid buffer (src/src/grid.rs),    *)
(* the bounding box and the rasterizer (src/src/main.rs) and the frame     *)
(* loop of main.                                                           *)
(*                                                                         *)
(* f32 values are modelled as pairs <<n, d>>:                              *)
(*   <<n, d>> with d > 0 and n # 0   the rational n/d, in lowest terms     *)
(*   <<0, 1>>, <<0, -1>>             +0.0 and -0.0                         *)
(*   <<1, 0>>, <<-1, 0>>             +infinity and -infinity               *)
(*   <<0, 0>>                        NaN                                   *)
(* The arithmetic follows IEEE 754 for the special values and the sign of  *)
(* zero; finite results are exact rationals (rounding to 24 bits is not    *)
(* modelled).                                                              *)
(***************************************************************************)
EXTENDS Integers, Sequences, FiniteSets, TLC

VARIABLES grid, depth_buffer, pc, call, shadow, drawn, terminal

vars == <<grid, depth_buffer, pc, call, shadow, drawn, terminal>>

-----------------------------------------------------------------------------
(* Bounds of the model.                                                    *)

\* The frame buffer of main is WIDTH x HEIGHT = 200 x 100 (main.rs:19-20);
\* the model keeps the two names and scales the buffer down.
WIDTH == 12
HEIGHT == 11

\* Grid::new is exercised for every width in 1..MaxGridW, height in 1..MaxGridH.
MaxGridW == 2
MaxGridH == 2

-----------------------------------------------------------------------------
(* f32                                                                     *)

Abs(n) == IF n < 0 THEN -n ELSE n

RECURSIVE GCD(_, _)
GCD(a, b) == IF b = 0 THEN a ELSE GCD(b, a % b)

NaN == <<0, 0>>
INFINITY == <<1, 0>>
NEG_INFINITY == <<-1, 0>>
Zero == <<0, 1>>
NegZero == <<0, -1>>
One == <<1, 1>>

IsNaN(a) == a = NaN
IsInf(a) == a[2] = 0 /\ a[1] # 0
IsZero(a) == a[1] = 0 /\ a[2] # 0
IsNeg(a) == a[1] < 0 \/ (a[1] = 0 /\ a[2] < 0)
SignedZero(neg) == IF neg THEN NegZero ELSE Zero
SignedInf(neg) == IF neg THEN NEG_INFINITY ELSE INFINITY

\* The finite non-zero rational n/d (d # 0), normalised.
Rat(n, d) ==
    LET g == GCD(Abs(n), Abs(d))
        s == IF d < 0 THEN -1 ELSE 1
    IN  <<(s * n) \div g, (s * d) \div g>>

\* The f32 of an integer (usize to f32, integer literals).
FromInt(n) == <<n, 1>>

FNeg(a) ==
    IF IsNaN(a) THEN NaN
    ELSE IF IsZero(a) THEN <<0, -a[2]>>
    ELSE <<-a[1], a[2]>>

FAdd(a, b) ==
    IF IsNaN(a) \/ IsNaN(b) THEN NaN
    ELSE IF IsInf(a) /\ IsInf(b) THEN (IF a = b THEN a ELSE NaN)
    ELSE IF IsInf(a) THEN a
    ELSE IF IsInf(b) THEN b
    ELSE IF IsZero(a) /\ IsZero(b) THEN SignedZero(IsNeg(a) /\ IsNeg(b))
    ELSE LET n == a[1] * Abs(b[2]) + b[1] * Abs(a[2])
         IN  IF n = 0 THEN Zero ELSE Rat(n, Abs(a[2]) * Abs(b[2]))

FSub(a, b) == FAdd(a, FNeg(b))

FMul(a, b) ==
    LET neg == IsNeg(a) # IsNeg(b)
    IN  IF IsNaN(a) \/ IsNaN(b) THEN NaN
        ELSE IF (IsInf(a) /\ IsZero(b)) \/ (IsZero(a) /\ IsInf(b)) THEN NaN
        ELSE IF IsInf(a) \/ IsInf(b) THEN SignedInf(neg)
        ELSE IF IsZero(a) \/ IsZero(b) THEN SignedZero(neg)
        ELSE Rat(a[1] * b[1], a[2] * b[2])

FDiv(a, b) ==
    LET neg == IsNeg(a) # IsNeg(b)
    IN  IF IsNaN(a) \/ IsNaN(b) THEN NaN
        ELSE IF (IsInf(a) /\ IsInf(b)) \/ (IsZero(a) /\ IsZero(b)) THEN NaN
        ELSE IF IsInf(a) \/ IsZero(b) THEN SignedInf(neg)
        ELSE IF IsZero(a) \/ IsInf(b) THEN SignedZero(neg)
        ELSE Rat(a[1] * b[2], a[2] * b[1])

\* a < b on numbers that are not NaN (-0.0 and +0.0 compare equal).
NumLt(a, b) ==
    IF IsInf(a) \/ IsInf(b)
    THEN (a = NEG_INFINITY /\ b # NEG_INFINITY) \/ (b = INFINITY /\ a # INFINITY)
    ELSE a[1] * Abs(b[2]) < b[1] * Abs(a[2])

FLt(a, b) == ~IsNaN(a) /\ ~IsNaN(b) /\ NumLt(a, b)
FGe(a, b) == ~IsNaN(a) /\ ~IsNaN(b) /\ ~NumLt(a, b)
FEq(a, b) == ~IsNaN(a) /\ ~IsNaN(b) /\ ~NumLt(a, b) /\ ~NumLt(b, a)

\* f32::min and f32::max: a NaN operand is ignored.
FMin(a, b) == IF IsNaN(a) THEN b ELSE IF IsNaN(b) THEN a
              ELSE IF NumLt(b, a) THEN b ELSE a
FMax(a, b) == IF IsNaN(a) THEN b ELSE IF IsNaN(b) THEN a
              ELSE IF NumLt(a, b) THEN b ELSE a

-----------------------------------------------------------------------------
(* Grid<T> (grid.rs).  data is the backing Vec, data[i + 1] the element at *)
(* index i.  An Option is <<>> (None) or <<v>> (Some(v)).                  *)

None == <<>>
Some(v) == <<v>>

\* Grid::new
GridNew(fill_value, width, height) ==
    [data |-> [i \in 1..(width * height) |-> fill_value],
     width |-> width, height |-> height]

\* GridIndex with the row stride taken from the height.
GridIndex_HeightStride(g, x, y) == y * g.height + x

\* y * self.width + x
GridIndex(g, x, y) == y * g.width + x

\* Grid::get: Vec::get on the computed index.
GridGet(g, x, y) ==
    LET index == GridIndex(g, x, y)
    IN  IF index < Len(g.data) THEN Some(g.data[index + 1]) ELSE None

\* Grid::set without the x >= self.width test.
GridSet_NoColumnCheck(g, value, x, y) ==
    LET index == y * g.width + x
    IN  IF index >= Len(g.data) \/ y >= g.height
        THEN <<g, FALSE>>
        ELSE <<[g EXCEPT !.data[index + 1] = value], TRUE>>

\* Grid::set: <<the grid afterwards, the bool returned>>.
GridSet(g, value, x, y) ==
    LET index == GridIndex(g, x, y)
    IN  IF index >= Len(g.data) \/ y >= g.height \/ x >= g.width
        THEN <<g, FALSE>>
        ELSE <<[g EXCEPT !.data[index + 1] = value], TRUE>>

\* for x in 0..self.width { self.set(value, x, y) }, from column x on.
RECURSIVE ClearRow(_, _, _, _)
ClearRow(g, value, x, y) ==
    IF x >= g.width THEN g
    ELSE ClearRow(GridSet(g, value, x, y)[1], value, x + 1, y)

\* for y in 0..self.height { ... }, from row y on.
RECURSIVE ClearRows(_, _, _)
ClearRows(g, value, y) ==
    IF y >= g.height THEN g
    ELSE ClearRows(ClearRow(g, value, 0, y), value, y + 1)

\* Grid::clear with the rows taken as 1..height.
GridClear_FromRowOne(g, value) == ClearRows(g, value, 1)

\* Grid::clear
GridClear(g, value) == ClearRows(g, value, 0)


-----------------------------------------------------------------------------
(* Vector3 (vector3.rs) and Triangle (main.rs).                            *)

\* Vector3::new
Vector3(x, y, z) == [x |-> x, y |-> y, z |-> z]

\* Sub<Vector3> for Vector3
VSub(u, v) == Vector3(FSub(u.x, v.x), FSub(u.y, v.y), FSub(u.z, v.z))

\* Vector3::dot: self.x * other.x + self.y * other.y + self.z * other.z
Dot(u, v) == FAdd(FAdd(FMul(u.x, v.x), FMul(u.y, v.y)), FMul(u.z, v.z))

\* Div<Vector3> for f32: scalar / vec, per component
ScalarDiv(scalar, v) ==
    Vector3(FDiv(scalar, v.x), FDiv(scalar, v.y), FDiv(scalar, v.z))

Triangle(a, b, c) == [a |-> a, b |-> b, c |-> c]

\* usize::MAX, scaled to the integers of the model checker; the code only
\* compares it with WIDTH and HEIGHT.
USIZE_MAX == 2^30 + (2^30 - 1)

\* `f as usize` with the integer part wrapped into the unsigned range
\* instead of saturated.
AsUsize_Wrapping(f) ==
    IF IsNaN(f) THEN 0
    ELSE IF IsInf(f) THEN USIZE_MAX
    ELSE IF IsNeg(f)
         THEN LET k == Abs(f[1]) \div Abs(f[2])
              IN  IF k = 0 THEN 0 ELSE USIZE_MAX - (k - 1)
    ELSE f[1] \div f[2]

\* `f as usize`: truncation towards zero, saturating; NaN gives 0.
AsUsize(f) ==
    IF IsNaN(f) THEN 0
    ELSE IF IsInf(f) THEN (IF IsNeg(f) THEN 0 ELSE USIZE_MAX)
    ELSE IF IsNeg(f) THEN 0
    ELSE f[1] \div f[2]

\* usize::clamp
Clamp(v, lo, hi) == IF v < lo THEN lo ELSE IF v > hi THEN hi ELSE v

\* Triangle::get_bounding_box: <<min_x, min_y, max_x, max_y>>
GetBoundingBox(t) ==
    LET min_x == FMin(t.a.x, FMin(t.b.x, t.c.x))
        min_y == FMin(t.a.y, FMin(t.b.y, t.c.y))
        max_x == FMax(t.a.x, FMax(t.b.x, t.c.x))
        max_y == FMax(t.a.y, FMax(t.b.y, t.c.y))
    IN  <<Clamp(AsUsize(min_x), 0, WIDTH), Clamp(AsUsize(min_y), 0, HEIGHT),
          Clamp(AsUsize(max_x), 0, WIDTH), Clamp(AsUsize(max_y), 0, HEIGHT)>>

\* edge_function
EdgeFunction(a, b, c) ==
    LET ac == VSub(c, a)
        ab == VSub(a, b)
        ab_perp == Vector3(ab.y, FNeg(ab.x), ab.z)
    IN  Dot(ac, ab_perp)

-----------------------------------------------------------------------------
(* rasterize_triangle (main.rs).  The buffers are a pair                   *)
(* <<grid, depth_buffer>>, never <<>>: the loops compare bufs with <<>>    *)
(* only so that each iteration is evaluated before the next one starts.    *)

\* The z test with the far-plane half left out.
ZOutOfRange_NearOnly(t) ==
    FLt(t.a.z, Zero) \/ FLt(t.b.z, Zero) \/ FLt(t.c.z, Zero)

\* a.z < 0.0 || b.z < 0.0 || c.z < 0.0 || a.z > 1.0 || b.z > 1.0 || c.z > 1.0
ZOutOfRange(t) ==
    \/ FLt(t.a.z, Zero) \/ FLt(t.b.z, Zero) \/ FLt(t.c.z, Zero)
    \/ FLt(One, t.a.z) \/ FLt(One, t.b.z) \/ FLt(One, t.c.z)

\* The three edge values at pixel (x, y).
PixelEdges(t, x, y) ==
    LET p == Vector3(FromInt(x), FromInt(y), Zero)
    IN  [abp |-> EdgeFunction(t.a, t.b, p),
         bcp |-> EdgeFunction(t.b, t.c, p),
         cap |-> EdgeFunction(t.c, t.a, p)]

\* is_inside
IsInside(e) ==
    /\ FGe(e.abp, Zero) = FGe(e.bcp, Zero)
    /\ FGe(e.bcp, Zero) = FGe(e.cap, Zero)

\* depth: 1.0 / depths.dot(weights)
PixelDepth(t, e, abc) ==
    LET depths == ScalarDiv(One, Vector3(t.a.z, t.b.z, t.c.z))
        weights == Vector3(FDiv(e.abp, abc), FDiv(e.bcp, abc), FDiv(e.cap, abc))
    IN  FDiv(One, Dot(depths, weights))

\* The depth test with the comparison turned round.
DepthTestSkips_Farther(prev, depth) ==
    prev # None /\ FGe(prev[1], depth)

\* if let Some(prev) = depth_buffer.get(x, y) && depth >= *prev { continue }
DepthTestSkips(prev, depth) ==
    prev # None /\ FGe(depth, prev[1])

\* The body of the pixel loop at (x, y).
RasterizePixel(t, abc, bufs, value, x, y) ==
    LET e == PixelEdges(t, x, y)
        depth == PixelDepth(t, e, abc)
    IN  IF ~IsInside(e) THEN bufs
        ELSE IF DepthTestSkips(GridGet(bufs[2], x, y), depth) THEN bufs
        ELSE <<GridSet(bufs[1], value, x, y)[1], GridSet(bufs[2], depth, x, y)[1]>>

\* for x in min_x..max_x { ... }: row y of the box, from column x on.
RECURSIVE RasterizeRow(_, _, _, _, _, _, _)
RasterizeRow(t, abc, box, bufs, value, x, y) ==
    IF x >= box[3] \/ bufs = <<>> THEN bufs
    ELSE RasterizeRow(t, abc, box, RasterizePixel(t, abc, bufs, value, x, y),
                      value, x + 1, y)

\* for y in min_y..max_y { ... }: the rows of the box, from row y on.
RECURSIVE RasterizeRows(_, _, _, _, _, _)
RasterizeRows(t, abc, box, bufs, value, y) ==
    IF y >= box[4] \/ bufs = <<>> THEN bufs
    ELSE RasterizeRows(t, abc, box,
                       RasterizeRow(t, abc, box, bufs, value, box[1], y),
                       value, y + 1)

\* rasterize_triangle
RasterizeTriangle(t, bufs, value) ==
    IF ZOutOfRange(t) THEN bufs
    ELSE LET box == GetBoundingBox(t)
         IN  RasterizeRows(t, EdgeFunction(t.a, t.b, t.c), box, bufs, value, box[2])

\* Display for Grid, row y from column x on: the text is a sequence of
\* one-character strings (res is compared with <<>> only so that each
\* iteration is evaluated before the next one starts).
RECURSIVE DisplayRow(_, _, _, _)
DisplayRow(g, res, x, y) ==
    IF x >= g.width \/ Len(res) < 0 THEN res
    ELSE DisplayRow(g, res \o GridGet(g, x, y), x + 1, y)

\* The rows joined by newlines, none after the last row.
RECURSIVE DisplayRows_NoLastNewline(_, _, _)
DisplayRows_NoLastNewline(g, res, y) ==
    IF y >= g.height \/ Len(res) < 0 THEN res
    ELSE DisplayRows_NoLastNewline(g,
             DisplayRow(g, res, 0, y) \o (IF y + 1 < g.height THEN <<"\n">> ELSE <<>>),
             y + 1)

\* for y in 0..self.height { ...; res.push_str("\n") }, from row y on.
RECURSIVE DisplayRows(_, _, _)
DisplayRows(g, res, y) ==
    IF y >= g.height \/ Len(res) < 0 THEN res
    ELSE DisplayRows(g, DisplayRow(g, res, 0, y) \o <<"\n">>, y + 1)

\* fmt::Display for Grid
Display(g) == DisplayRows(g, <<>>, 0)

-----------------------------------------------------------------------------
(* The Grid operations on their own: a Grid<char> made by Grid::new, then  *)
(* any sequence of get, set and clear.  call records the last operation,   *)
(* its arguments, what it returned and the grid before it; shadow records, *)
(* per in-range coordinate, the value of the most recent set or clear.     *)

Glyphs == {" ", "#"}

GridXs == 0..(MaxGridW + 1)
GridYs == 0..(MaxGridH + 1)

InRange(g, x, y) == x < g.width /\ y < g.height
Coords(g) == (0..(g.width - 1)) \X (0..(g.height - 1))

NoCall == [op |-> "new", x |-> 0, y |-> 0, value |-> " ", ret |-> None]

GridInit ==
    /\ \E fill_value \in Glyphs, width \in 1..MaxGridW, height \in 1..MaxGridH :
          /\ grid = GridNew(fill_value, width, height)
          /\ shadow = [c \in (0..(width - 1)) \X (0..(height - 1)) |-> fill_value]
    /\ depth_buffer = GridNew(INFINITY, 0, 0)
    /\ pc = [at |-> "grid", i |-> 0]
    /\ drawn = <<>>
    /\ call = [NoCall EXCEPT !.value = grid.data[1]] @@ [before |-> grid]
    /\ terminal = <<>>

Get(x, y) ==
    /\ call' = [op |-> "get", x |-> x, y |-> y, value |-> " ",
                ret |-> GridGet(grid, x, y), before |-> grid]
    /\ UNCHANGED <<grid, depth_buffer, pc, shadow, drawn, terminal>>

Set(value, x, y) ==
    LET r == GridSet(grid, value, x, y)
    IN  /\ grid' = r[1]
        /\ call' = [op |-> "set", x |-> x, y |-> y, value |-> value,
                    ret |-> r[2], before |-> grid]
        /\ shadow' = IF InRange(grid, x, y)
                     THEN [shadow EXCEPT ![<<x, y>>] = value]
                     ELSE shadow
        /\ UNCHANGED <<depth_buffer, pc, drawn, terminal>>

Clear(value) ==
    /\ grid' = GridClear(grid, value)
    /\ call' = [op |-> "clear", x |-> 0, y |-> 0, value |-> value,
                ret |-> None, before |-> grid]
    /\ shadow' = [c \in DOMAIN shadow |-> value]
    /\ UNCHANGED <<depth_buffer, pc, drawn, terminal>>

\* format!("{grid}"): the text Display writes for the grid.
Fmt ==
    /\ call' = [op |-> "fmt", x |-> 0, y |-> 0, value |-> " ",
                ret |-> Display(grid), before |-> grid]
    /\ UNCHANGED <<grid, depth_buffer, pc, shadow, drawn, terminal>>

GridNext ==
    \/ \E x \in GridXs, y \in GridYs : Get(x, y)
    \/ \E value \in Glyphs, x \in GridXs, y \in GridYs : Set(value, x, y)
    \/ \E value \in Glyphs : Clear(value)
    \/ Fmt

SpecGrid == GridInit /\ [][GridNext]_vars

-----------------------------------------------------------------------------
(* Claims about Grid, checked under SpecGrid.                              *)

\* C4: get(x, y) returns none whenever x >= width or y >= height, and the
\* stored cell only for x < width and y < height.
C4_GetOutOfRangeIsNone ==
    call.op = "get" =>
        IF InRange(call.before, call.x, call.y)
        THEN call.ret = Some(call.before.data[call.y * call.before.width + call.x + 1])
        ELSE call.ret = None

\* C5: set out of range returns false and changes no cell; set in range
\* returns true, makes cell (x, y) the value and changes no other cell.
C5_SetFrame ==
    call.op = "set" =>
        IF InRange(call.before, call.x, call.y)
        THEN /\ call.ret = TRUE
             /\ grid.width = call.before.width /\ grid.height = call.before.height
             /\ Len(grid.data) = Len(call.before.data)
             /\ \A c \in Coords(grid) :
                   grid.data[c[2] * grid.width + c[1] + 1] =
                      IF c = <<call.x, call.y>> THEN call.value
                      ELSE call.before.data[c[2] * grid.width + c[1] + 1]
        ELSE call.ret = FALSE /\ grid = call.before

C5_Witness ==
    /\ call.op = "set" /\ call.ret = FALSE
    /\ call.x >= grid.width /\ call.y * grid.width + call.x < Len(grid.data)

\* C6: after clear(v), get(x, y) returns v for every in-range (x, y).
C6_ClearFillsEveryCell ==
    call.op = "clear" =>
        \A c \in Coords(grid) : GridGet(grid, c[1], c[2]) = Some(call.value)

C6_Witness ==
    /\ call.op = "clear"
    /\ \E c \in Coords(grid) :
          call.before.data[c[2] * grid.width + c[1] + 1] # call.value
    /\ grid.width > 1 /\ grid.height > 1

\* C7: distinct in-range coordinates have distinct backing indices below
\* width * height, and get at an in-range coordinate returns the value of
\* the most recent set there or clear (or the initial fill value).
C7_IndexInjectiveAndLastWrite ==
    /\ \A c \in Coords(grid) : GridIndex(grid, c[1], c[2]) < grid.width * grid.height
    /\ \A c1 \in Coords(grid), c2 \in Coords(grid) :
          c1 # c2 => GridIndex(grid, c1[1], c1[2]) # GridIndex(grid, c2[1], c2[2])
    /\ \A c \in Coords(grid) : GridGet(grid, c[1], c[2]) = Some(shadow[c])

C7_Witness ==
    /\ call.op = "set" /\ call.ret = TRUE
    /\ grid.width > 1 /\ grid.height > 1
    /\ \E c1 \in Coords(grid), c2 \in Coords(grid) :
          c1[2] # c2[2] /\ shadow[c1] # shadow[c2]

-----------------------------------------------------------------------------
(* One call of rasterize_triangle.  The triangle has its vertices at the   *)
(* points of RasterPoints and their depths in ZValues, or is the triangle  *)
(* (0,0),(10,0),(0,10); the buffers are freshly cleared, or hold what an   *)
(* earlier triangle of the frame left.                                     *)

Half == <<1, 2>>

ZValues == {<<-1, 2>>, Zero, Half, One, <<3, 2>>}

RasterPoints == {<<0, 0>>, <<1, 1>>, <<3, 3>>, <<3, 0>>}

RasterGlyphs == {".", "#"}

Vertex(p, z) == Vector3(FromInt(p[1]), FromInt(p[2]), z)

BigTriangle(z) == Triangle(Vertex(<<0, 0>>, z), Vertex(<<10, 0>>, z), Vertex(<<0, 10>>, z))

RasterTriangles ==
    {Triangle(Vertex(pa, za), Vertex(pb, zb), Vertex(pc_, zc)) :
        <<pa, pb, pc_>> \in RasterPoints \X RasterPoints \X RasterPoints,
        <<za, zb, zc>> \in ZValues \X ZValues \X ZValues}
    \cup {BigTriangle(z) : z \in ZValues}

\* The buffers as main creates them and as clear leaves them.
FreshBuffers == <<GridNew(" ", WIDTH, HEIGHT), GridNew(INFINITY, WIDTH, HEIGHT)>>

EarlierTriangle == Triangle(Vertex(<<0, 0>>, Half), Vertex(<<3, 0>>, Half), Vertex(<<3, 3>>, Half))

RasterInit ==
    /\ \E bufs \in {FreshBuffers, RasterizeTriangle(EarlierTriangle, FreshBuffers, "/")} :
          /\ grid = bufs[1]
          /\ depth_buffer = bufs[2]
    /\ pc = [at |-> "call", i |-> 0]
    /\ call = [op |-> "none", t |-> EarlierTriangle, value |-> " ",
               before |-> <<grid, depth_buffer>>]
    /\ shadow = <<>>
    /\ drawn = <<>>
    /\ terminal = <<>>

Rasterize(t, value) ==
    LET bufs == RasterizeTriangle(t, <<grid, depth_buffer>>, value)
    IN  /\ pc.at = "call"
        /\ grid' = bufs[1]
        /\ depth_buffer' = bufs[2]
        /\ call' = [op |-> "rasterize_triangle", t |-> t, value |-> value,
                    before |-> <<grid, depth_buffer>>]
        /\ pc' = [at |-> "return", i |-> 0]
        /\ UNCHANGED <<shadow, drawn, terminal>>

RasterNext ==
    /\ pc.at = "call"
    /\ \E t \in RasterTriangles, value \in RasterGlyphs : Rasterize(t, value)

SpecRaster == RasterInit /\ [][RasterNext]_vars

-----------------------------------------------------------------------------
(* The frame loop of main.  The camera, the transforms and the projection  *)
(* are not part of the state: each triangle main hands to                  *)
(* rasterize_triangle is one of SceneTriangles, a projected triangle with  *)
(* the character its shade maps to.  drawn lists the triangles rasterized  *)
(* so far in the frame; terminal is what was printed since the screen was  *)
(* last cleared.                                                           *)

\* triangles = vec![(tri1, transform1), (tri2, transform2), (tri3, transform3)]
NumTriangles == 3

Shaded(t, value) == [t |-> t, value |-> value]

SceneTriangles ==
    { Shaded(EarlierTriangle, "#"),
      Shaded(Triangle(Vertex(<<0, 0>>, Half), Vertex(<<3, 3>>, Half), Vertex(<<3, 0>>, Half)), "$"),
      Shaded(Triangle(Vertex(<<0, 0>>, One), Vertex(<<3, 0>>, One), Vertex(<<3, 3>>, One)), "."),
      Shaded(Triangle(Vertex(<<0, 0>>, Zero), Vertex(<<3, 0>>, Zero), Vertex(<<3, 3>>, Zero)), "/"),
      Shaded(Triangle(Vertex(<<1, 1>>, Half), Vertex(<<3, 3>>, One), Vertex(<<3, 0>>, One)), "$"),
      Shaded(Triangle(Vertex(<<0, 0>>, <<3, 2>>), Vertex(<<3, 0>>, Half), Vertex(<<3, 3>>, Half)), "#"),
      Shaded(Triangle(Vertex(<<0, 0>>, Half), Vertex(<<1, 1>>, Half), Vertex(<<3, 3>>, Half)), "."),
      Shaded(Triangle(Vector3(<<5, 4>>, One, One), Vector3(<<3, 2>>, One, One),
                      Vector3(FromInt(2), FromInt(2), Half)), "#"),
      Shaded(Triangle(Vertex(<<WIDTH - 2, HEIGHT - 2>>, Half),
                      Vertex(<<WIDTH + 2, HEIGHT - 2>>, Half),
                      Vertex(<<WIDTH + 2, HEIGHT + 2>>, Half)), "/") }

Init ==
    /\ grid = GridNew(" ", WIDTH, HEIGHT)
    /\ depth_buffer = GridNew(INFINITY, WIDTH, HEIGHT)
    /\ pc = [at |-> "poll", i |-> 0]
    /\ call = [op |-> "none", t |-> EarlierTriangle, value |-> " ",
               before |-> <<grid, depth_buffer>>]
    /\ shadow = <<>>
    /\ drawn = <<>>
    /\ terminal = <<>>

\* The head of the loop body: the camera direction, the key poll and the
\* view matrix; then the triangle loop starts.
PollInput ==
    /\ pc.at = "poll"
    /\ pc' = [at |-> "triangles", i |-> 0]
    /\ drawn' = <<>>
    /\ UNCHANGED <<grid, depth_buffer, call, shadow, terminal>>

\* One iteration of `for (tri, transform) in &mut triangles`: the light
\* value is printed and the projected triangle rasterized.
DrawTriangle(t, character) ==
    LET bufs == RasterizeTriangle(t, <<grid, depth_buffer>>, character)
    IN  /\ terminal' = Append(terminal, <<"value", "\n">>)
        /\ grid' = bufs[1]
        /\ depth_buffer' = bufs[2]
        /\ call' = [op |-> "rasterize_triangle", t |-> t, value |-> character,
                    before |-> <<grid, depth_buffer>>]
        /\ drawn' = Append(drawn, [t |-> t, value |-> character])
        /\ pc' = [pc EXCEPT !.i = pc.i + 1]
        /\ UNCHANGED shadow

\* print!("{grid}")
PrintGrid ==
    /\ pc.at = "triangles" /\ pc.i = NumTriangles
    /\ terminal' = Append(terminal, Display(grid))
    /\ pc' = [at |-> "clear_screen", i |-> 0]
    /\ UNCHANGED <<grid, depth_buffer, call, shadow, drawn>>

\* print!("\x1B[2J\x1B[1;1H")
ClearScreen ==
    /\ pc.at = "clear_screen"
    /\ terminal' = <<>>
    /\ pc' = [at |-> "clear_grid", i |-> 0]
    /\ UNCHANGED <<grid, depth_buffer, call, shadow, drawn>>

\* grid.clear(' ')
ClearGrid ==
    /\ pc.at = "clear_grid"
    /\ grid' = GridClear(grid, " ")
    /\ pc' = [at |-> "clear_depth", i |-> 0]
    /\ UNCHANGED <<depth_buffer, call, shadow, drawn, terminal>>

\* The end of the loop body with the depth buffer left as it is.
ClearDepth_Skipped ==
    /\ pc.at = "clear_depth"
    /\ pc' = [at |-> "poll", i |-> 0]
    /\ UNCHANGED <<grid, depth_buffer, call, shadow, drawn, terminal>>

\* depth_buffer.clear(f32::INFINITY)
ClearDepth ==
    /\ pc.at = "clear_depth"
    /\ depth_buffer' = GridClear(depth_buffer, INFINITY)
    /\ pc' = [at |-> "poll", i |-> 0]
    /\ UNCHANGED <<grid, call, shadow, drawn, terminal>>

Next ==
    \/ PollInput
    \/ /\ pc.at = "triangles" /\ pc.i < NumTriangles
       /\ \E s \in SceneTriangles : DrawTriangle(s.t, s.value)
    \/ PrintGrid
    \/ ClearScreen
    \/ ClearGrid
    \/ ClearDepth

Spec == Init /\ [][Next]_vars

-----------------------------------------------------------------------------
(* Claims about one call of rasterize_triangle, checked under SpecRaster.  *)

CellAt(g, x, y) == g.data[y * g.width + x + 1]

Pixels == (0..(WIDTH - 1)) \X (0..(HEIGHT - 1))

Called == call.op = "rasterize_triangle"

\* The call wrote pixel p: its colour cell or its depth cell changed.
Wrote(p) ==
    \/ CellAt(grid, p[1], p[2]) # CellAt(call.before[1], p[1], p[2])
    \/ CellAt(depth_buffer, p[1], p[2]) # CellAt(call.before[2], p[1], p[2])

\* C2: rasterizing (0,0),(10,0),(0,10), all vertices at one in-range depth,
\* onto freshly cleared grids writes exactly the pixels with x >= 0, y >= 0,
\* x + y <= 10, the pixels at the maximum x and y included.
C2_FillsExactlyTheTriangle ==
    (/\ Called
     /\ call.before = FreshBuffers
     /\ \E z \in {Zero, Half, One} : call.t = BigTriangle(z))
    => \A p \in Pixels : Wrote(p) <=> p[1] + p[2] <= 10

\* The three screen points lie on one line (or coincide).
Collinear(t) ==
    FEq(FMul(FSub(t.b.x, t.a.x), FSub(t.c.y, t.a.y)),
        FMul(FSub(t.b.y, t.a.y), FSub(t.c.x, t.a.x)))

\* C3: rasterizing a zero-area triangle (collinear or coincident points,
\* edge(a,b,c) = 0) writes neither grid, and afterwards no depth cell holds
\* NaN or an infinity other than the cleared +infinity background.
C3_ZeroAreaWritesNothing ==
    (/\ Called
     /\ call.before = FreshBuffers
     /\ Collinear(call.t)
     /\ FEq(EdgeFunction(call.t.a, call.t.b, call.t.c), Zero))
    => /\ <<grid, depth_buffer>> = call.before
       /\ \A p \in Pixels :
             /\ ~IsNaN(CellAt(depth_buffer, p[1], p[2]))
             /\ CellAt(depth_buffer, p[1], p[2]) # NEG_INFINITY

\* C8: if any vertex of the triangle has z < 0 or z > 1, the call leaves
\* the colour grid and the depth grid entirely unchanged.
C8_ZOutOfRangeWritesNothing ==
    (/\ Called
     /\ \E v \in {call.t.a, call.t.b, call.t.c} : FLt(v.z, Zero) \/ FLt(One, v.z))
    => <<grid, depth_buffer>> = call.before

\* A triangle with one vertex beyond z = 1 that would cover pixels of
\* freshly cleared buffers was handed over.
C8_Witness ==
    /\ Called
    /\ call.before = FreshBuffers
    /\ call.t.a.z = <<3, 2>> /\ call.t.b.z = Half /\ call.t.c.z = Half
    /\ ~Collinear(call.t)
    /\ \E p \in Pixels : IsInside(PixelEdges(call.t, p[1], p[2]))

-----------------------------------------------------------------------------
(* get_bounding_box on its own: the three points have their coordinates in *)
(* BoxXs x BoxYs, which hold values below zero, inside the grid, beyond    *)
(* it, with a fraction, infinite and NaN.                                  *)

BoxXs == {<<-2, 1>>, <<-1, 2>>, <<3, 2>>, FromInt(WIDTH - 1), FromInt(WIDTH + 2), INFINITY}

BoxYs == {NEG_INFINITY, <<-1, 1>>, <<5, 2>>, FromInt(HEIGHT), NaN}

BoxInit ==
    /\ grid = GridNew(" ", WIDTH, HEIGHT)
    /\ depth_buffer = GridNew(INFINITY, 0, 0)
    /\ pc = [at |-> "call", i |-> 0]
    /\ \E xa \in BoxXs, xb \in BoxXs, xc \in BoxXs, ya \in BoxYs, yb \in BoxYs, yc \in BoxYs :
          call = [op |-> "none",
                  t |-> Triangle(Vector3(xa, ya, Half), Vector3(xb, yb, Half),
                                 Vector3(xc, yc, Half)),
                  ret |-> <<0, 0, 0, 0>>]
    /\ shadow = <<>>
    /\ drawn = <<>>
    /\ terminal = <<>>

BoundingBox ==
    /\ pc.at = "call"
    /\ call' = [call EXCEPT !.op = "get_bounding_box", !.ret = GetBoundingBox(call.t)]
    /\ pc' = [at |-> "return", i |-> 0]
    /\ UNCHANGED <<grid, depth_buffer, shadow, drawn, terminal>>

BoxNext == BoundingBox

SpecBox == BoxInit /\ [][BoxNext]_vars

\* C9: for every triple of screen points get_bounding_box returns
\* (min_x, min_y, max_x, max_y) with 0 <= min_x <= max_x <= WIDTH and
\* 0 <= min_y <= max_y <= HEIGHT, so every pixel of
\* [min_x, max_x) x [min_y, max_y) is an in-range cell of the grid.
C9_BoundingBoxClamped ==
    call.op = "get_bounding_box" =>
        LET min_x == call.ret[1]
            min_y == call.ret[2]
            max_x == call.ret[3]
            max_y == call.ret[4]
        IN  /\ 0 <= min_x /\ min_x <= max_x /\ max_x <= WIDTH
            /\ 0 <= min_y /\ min_y <= max_y /\ max_y <= HEIGHT
            /\ \A x \in min_x..(max_x - 1), y \in min_y..(max_y - 1) :
                  InRange(grid, x, y) /\ GridGet(grid, x, y) # None

\* A box with a point left of the grid and a point right of it: both ends
\* of the x range were clamped.
C9_Witness ==
    /\ call.op = "get_bounding_box"
    /\ \E v \in {call.t.a, call.t.b, call.t.c} : FLt(v.x, Zero)
    /\ \E v \in {call.t.a, call.t.b, call.t.c} : FLt(FromInt(WIDTH), v.x)
    /\ call.ret[1] = 0 /\ call.ret[3] = WIDTH
    /\ call.ret[2] < call.ret[4]

-----------------------------------------------------------------------------
(* Claims about the frame loop, checked under Spec.                        *)

\* Pixel p is one the rasterizer fills for triangle t: it lies in the
\* bounding box and passes the inside test.
Covers(t, p) ==
    LET box == GetBoundingBox(t)
    IN  /\ box[1] <= p[1] /\ p[1] < box[3]
        /\ box[2] <= p[2] /\ p[2] < box[4]
        /\ IsInside(PixelEdges(t, p[1], p[2]))

\* The depth the rasterizer computes for triangle t at pixel p.
DepthAt(t, p) == PixelDepth(t, PixelEdges(t, p[1], p[2]), EdgeFunction(t.a, t.b, t.c))

InZRange(t) ==
    \A v \in {t.a, t.b, t.c} : ~FLt(v.z, Zero) /\ ~FLt(One, v.z)

\* C1: for two triangles A, B that pass the z-range check, have non-zero
\* area and differ in depth at every pixel both cover, rasterizing A then B
\* onto freshly cleared grids gives the same grids as B then A, and every
\* pixel covered by both shows the character of the one nearer there.
C1_OrderIndependentNearerWins ==
    (/\ pc.at = "triangles" /\ Len(drawn) = 2
     /\ InZRange(drawn[1].t) /\ InZRange(drawn[2].t)
     /\ ~Collinear(drawn[1].t) /\ ~Collinear(drawn[2].t)
     /\ \A p \in Pixels :
           Covers(drawn[1].t, p) /\ Covers(drawn[2].t, p)
              => DepthAt(drawn[1].t, p) # DepthAt(drawn[2].t, p))
    => /\ <<grid, depth_buffer>> =
             RasterizeTriangle(drawn[1].t,
                 RasterizeTriangle(drawn[2].t, FreshBuffers, drawn[2].value),
                 drawn[1].value)
       /\ \A p \in Pixels :
             Covers(drawn[1].t, p) /\ Covers(drawn[2].t, p)
                => CellAt(grid, p[1], p[2]) =
                      IF FLt(DepthAt(drawn[1].t, p), DepthAt(drawn[2].t, p))
                      THEN drawn[1].value ELSE drawn[2].value

\* C10: when a frame's triangle loop begins, every cell of the colour grid
\* holds ' ' and every cell of the depth grid holds +infinity.
C10_FrameStartsCleared ==
    (pc.at = "triangles" /\ pc.i = 0) =>
        \A p \in Pixels :
            /\ GridGet(grid, p[1], p[2]) = Some(" ")
            /\ GridGet(depth_buffer, p[1], p[2]) = Some(INFINITY)

\* A later frame begins: the frame before it rasterized a triangle onto
\* buffers that already held pixels.
C10_Witness ==
    /\ pc.at = "triangles" /\ pc.i = 0
    /\ Called
    /\ call.before # FreshBuffers
    /\ \E p \in Pixels : CellAt(call.before[1], p[1], p[2]) # " "

-----------------------------------------------------------------------------
(* Vector2, Vector3, Vector4 (vector2.rs, vector3.rs, vector4.rs) and      *)
(* Matrix2, Matrix3, Matrix4 (matrix2.rs, matrix3.rs, matrix4.rs).  The    *)
(* operators the three dimensions share take the dimension n first; a      *)
(* matrix is the record of its columns x, y (, z (, w)).  A panic is the   *)
(* value Panicked; a call that returns v gives Some(v).                    *)

Panicked == <<"panic", "abort">>

\* Vector2::new, Vector4::new
Vector2(x, y) == [x |-> x, y |-> y]
Vector4(x, y, z, w) == [x |-> x, y |-> y, z |-> z, w |-> w]

\* The vector of dimension n with the components s[1], ..., s[n], and the
\* components of a vector in order.
VectorOf(n, s) ==
    CASE n = 2 -> Vector2(s[1], s[2])
      [] n = 3 -> Vector3(s[1], s[2], s[3])
      [] n = 4 -> Vector4(s[1], s[2], s[3], s[4])

Components(n, v) ==
    CASE n = 2 -> <<v.x, v.y>>
      [] n = 3 -> <<v.x, v.y, v.z>>
      [] n = 4 -> <<v.x, v.y, v.z, v.w>>

\* Index<usize> for Vector2 / Vector3 / Vector4 (the indices used are
\* literals below the dimension)
Index(v, index) ==
    CASE index = 0 -> v.x [] index = 1 -> v.y [] index = 2 -> v.z [] index = 3 -> v.w

\* Vector4::from_vector3
Vector4FromVector3(v, w) == Vector4(v.x, v.y, v.z, w)

\* Vector4::to_homogeneous
Vector4ToHomogeneous(v) == Vector4FromVector3(v, One)

\* Vector::dot
VectorDot(n, u, v) ==
    CASE n = 2 -> FAdd(FMul(u.x, v.x), FMul(u.y, v.y))
      [] n = 3 -> Dot(u, v)
      [] n = 4 -> FAdd(FAdd(FAdd(FMul(u.x, v.x), FMul(u.y, v.y)), FMul(u.z, v.z)),
                       FMul(u.w, v.w))

\* Add<VectorN> for VectorN: self + other
VectorAdd(n, self, other) ==
    CASE n = 2 -> Vector2(FAdd(self.x, other.x), FAdd(self.y, other.y))
      [] n = 3 -> Vector3(FAdd(other.x, self.x), FAdd(other.y, self.y),
                          FAdd(other.z, self.z))
      [] n = 4 -> Vector4(FAdd(other.x, self.x), FAdd(other.y, self.y),
                          FAdd(other.z, self.z), FAdd(other.w, self.w))

\* Add<f32> for VectorN: self + scalar
VectorAddScalar(n, self, scalar) ==
    CASE n = 2 -> Vector2(FAdd(scalar, self.x), FAdd(scalar, self.y))
      [] n = 3 -> Vector3(FAdd(scalar, self.x), FAdd(scalar, self.y), FAdd(scalar, self.z))
      [] n = 4 -> Vector4(FAdd(scalar, self.x), FAdd(scalar, self.y),
                          FAdd(scalar, self.z), FAdd(scalar, self.w))

\* Add<VectorN> for f32: self + vec.  For Vector3 the code is
\* Vector3::new(self + vec.x, self + vec.y, self + vec.y).
ScalarAddVector(n, self, vec) ==
    CASE n = 2 -> Vector2(FAdd(self, vec.x), FAdd(self, vec.y))
      [] n = 3 -> Vector3(FAdd(self, vec.x), FAdd(self, vec.y), FAdd(self, vec.y))
      [] n = 4 -> Vector4(FAdd(self, vec.x), FAdd(self, vec.y),
                          FAdd(self, vec.z), FAdd(self, vec.w))

\* Mul<VectorN> for f32: self * vec
ScalarMulVector(n, self, vec) ==
    CASE n = 2 -> Vector2(FMul(self, vec.x), FMul(self, vec.y))
      [] n = 3 -> Vector3(FMul(self, vec.x), FMul(self, vec.y), FMul(self, vec.z))
      [] n = 4 -> Vector4(FMul(self, vec.x), FMul(self, vec.y),
                          FMul(self, vec.z), FMul(self, vec.w))

\* Neg for Vector3
Vector3Neg(v) == Vector3(FNeg(v.x), FNeg(v.y), FNeg(v.z))

\* PartialEq (derived) for VectorN: every component compares equal as f32,
\* so a NaN component makes the result false and -0.0 equals +0.0.
VectorEq(n, u, v) ==
    \A k \in 1..n : FEq(Components(n, u)[k], Components(n, v)[k])

\* Matrix2::from_cols, Matrix3::from_cols, Matrix4::from_cols
Matrix2FromCols(x, y) == [x |-> x, y |-> y]
Matrix3FromCols(x, y, z) == [x |-> x, y |-> y, z |-> z]
Matrix4FromCols(x, y, z, w) == [x |-> x, y |-> y, z |-> z, w |-> w]

\* Matrix2::from_rows
Matrix2FromRows(x, y) ==
    [x |-> Vector2(Index(x, 0), Index(y, 0)),
     y |-> Vector2(Index(x, 1), Index(y, 1))]

\* Matrix3::from_rows
Matrix3FromRows(x, y, z) ==
    [x |-> Vector3(Index(x, 0), Index(y, 0), Index(z, 0)),
     y |-> Vector3(Index(x, 1), Index(y, 1), Index(z, 1)),
     z |-> Vector3(Index(x, 2), Index(y, 2), Index(z, 2))]

\* Matrix4::from_rows
Matrix4FromRows(x, y, z, w) ==
    [x |-> Vector4(Index(x, 0), Index(y, 0), Index(z, 0), Index(w, 0)),
     y |-> Vector4(Index(x, 1), Index(y, 1), Index(z, 1), Index(w, 1)),
     z |-> Vector4(Index(x, 2), Index(y, 2), Index(z, 2), Index(w, 2)),
     w |-> Vector4(Index(x, 3), Index(y, 3), Index(z, 3), Index(w, 3))]

\* Matrix3::new: the arguments row by row.
Matrix3New(m00, m01, m02, m10, m11, m12, m20, m21, m22) ==
    Matrix3FromRows(Vector3(m00, m01, m02), Vector3(m10, m11, m12), Vector3(m20, m21, m22))

\* Matrix2::new, Matrix3::new, Matrix4::new on the argument rows r[1], ..., r[n].
MatrixNew(n, r) ==
    CASE n = 2 -> Matrix2FromRows(Vector2(r[1][1], r[1][2]), Vector2(r[2][1], r[2][2]))
      [] n = 3 -> Matrix3New(r[1][1], r[1][2], r[1][3], r[2][1], r[2][2], r[2][3],
                             r[3][1], r[3][2], r[3][3])
      [] n = 4 -> Matrix4FromRows(Vector4(r[1][1], r[1][2], r[1][3], r[1][4]),
                                  Vector4(r[2][1], r[2][2], r[2][3], r[2][4]),
                                  Vector4(r[3][1], r[3][2], r[3][3], r[3][4]),
                                  Vector4(r[4][1], r[4][2], r[4][3], r[4][4]))

\* Matrix::row: an arm for each of 0..n-1, the catch-all panics.
MatrixRow(n, self, index) ==
    CASE n = 2 /\ index < 2 -> Some(Vector2(Index(self.x, index), Index(self.y, index)))
      [] n = 3 /\ index < 3 -> Some(Vector3(Index(self.x, index), Index(self.y, index),
                                            Index(self.z, index)))
      [] n = 4 /\ index < 4 -> Some(Vector4(Index(self.x, index), Index(self.y, index),
                                            Index(self.z, index), Index(self.w, index)))
      [] OTHER -> Panicked

\* Matrix::col: Matrix2 has the arms 0, 1; Matrix3 the arms 0, 1, 2;
\* Matrix4 the arms 0, 1, 2; the catch-all panics.
MatrixCol(n, self, index) ==
    CASE index = 0 -> Some(self.x)
      [] index = 1 -> Some(self.y)
      [] index = 2 /\ n \in {3, 4} -> Some(self.z)
      [] OTHER -> Panicked

\* Matrix::transpose
MatrixTranspose(n, self) ==
    CASE n = 2 -> Matrix2FromRows(self.x, self.y)
      [] n = 3 -> Matrix3FromRows(self.x, self.y, self.z)
      [] n = 4 -> Matrix4FromRows(self.x, self.y, self.z, self.w)

\* Matrix::identity (Matrix3, Matrix4)
MatrixIdentity(n) ==
    CASE n = 3 -> Matrix3FromCols(Vector3(FromInt(1), FromInt(0), FromInt(0)),
                                  Vector3(FromInt(0), FromInt(1), FromInt(0)),
                                  Vector3(FromInt(0), FromInt(0), FromInt(1)))
      [] n = 4 -> Matrix4FromCols(Vector4(FromInt(1), FromInt(0), FromInt(0), FromInt(0)),
                                  Vector4(FromInt(0), FromInt(1), FromInt(0), FromInt(0)),
                                  Vector4(FromInt(0), FromInt(0), FromInt(1), FromInt(0)),
                                  Vector4(FromInt(0), FromInt(0), FromInt(0), FromInt(1)))

\* Mul<VectorN> for MatrixN with the rows of the matrix in place of its
\* columns.
MatrixMulVector_ByRows(n, self, v) ==
    LET t == MatrixTranspose(n, self)
    IN  CASE n = 2 -> VectorAdd(2, ScalarMulVector(2, v.x, t.x), ScalarMulVector(2, v.y, t.y))
          [] n = 3 -> VectorAdd(3, VectorAdd(3, ScalarMulVector(3, v.x, t.x),
                                                ScalarMulVector(3, v.y, t.y)),
                                ScalarMulVector(3, v.z, t.z))
          [] n = 4 -> VectorAdd(4, VectorAdd(4, VectorAdd(4, ScalarMulVector(4, v.x, t.x),
                                                             ScalarMulVector(4, v.y, t.y)),
                                             ScalarMulVector(4, v.z, t.z)),
                                ScalarMulVector(4, v.w, t.w))

\* Mul<VectorN> for MatrixN: v.x * self.x + v.y * self.y (+ v.z * self.z
\* (+ v.w * self.w))
MatrixMulVector(n, self, v) ==
    CASE n = 2 -> VectorAdd(2, ScalarMulVector(2, v.x, self.x), ScalarMulVector(2, v.y, self.y))
      [] n = 3 -> VectorAdd(3, VectorAdd(3, ScalarMulVector(3, v.x, self.x),
                                            ScalarMulVector(3, v.y, self.y)),
                            ScalarMulVector(3, v.z, self.z))
      [] n = 4 -> VectorAdd(4, VectorAdd(4, VectorAdd(4, ScalarMulVector(4, v.x, self.x),
                                                         ScalarMulVector(4, v.y, self.y)),
                                         ScalarMulVector(4, v.z, self.z)),
                            ScalarMulVector(4, v.w, self.w))

\* Mul<MatrixN> for MatrixN with the products taken as the rows of the
\* result.
MatrixMul_FromRows(n, self, other) ==
    CASE n = 2 -> Matrix2FromRows(MatrixMulVector(2, self, other.x),
                                  MatrixMulVector(2, self, other.y))
      [] n = 3 -> Matrix3FromRows(MatrixMulVector(3, self, other.x),
                                  MatrixMulVector(3, self, other.y),
                                  MatrixMulVector(3, self, other.z))
      [] n = 4 -> Matrix4FromRows(MatrixMulVector(4, self, other.x),
                                  MatrixMulVector(4, self, other.y),
                                  MatrixMulVector(4, self, other.z),
                                  MatrixMulVector(4, self, other.w))

\* Mul<MatrixN> for MatrixN: the columns self * other.x, self * other.y, ...
MatrixMul(n, self, other) ==
    CASE n = 2 -> Matrix2FromCols(MatrixMulVector(2, self, other.x),
                                  MatrixMulVector(2, self, other.y))
      [] n = 3 -> Matrix3FromCols(MatrixMulVector(3, self, other.x),
                                  MatrixMulVector(3, self, other.y),
                                  MatrixMulVector(3, self, other.z))
      [] n = 4 -> Matrix4FromCols(MatrixMulVector(4, self, other.x),
                                  MatrixMulVector(4, self, other.y),
                                  MatrixMulVector(4, self, other.z),
                                  MatrixMulVector(4, self, other.w))

\* Add<f32> for MatrixN: self + scalar, the columns scalar + self.x, ...
MatrixAddScalar(n, self, scalar) ==
    CASE n = 2 -> Matrix2FromCols(ScalarAddVector(2, scalar, self.x),
                                  ScalarAddVector(2, scalar, self.y))
      [] n = 3 -> Matrix3FromCols(ScalarAddVector(3, scalar, self.x),
                                  ScalarAddVector(3, scalar, self.y),
                                  ScalarAddVector(3, scalar, self.z))
      [] n = 4 -> Matrix4FromCols(ScalarAddVector(4, scalar, self.x),
                                  ScalarAddVector(4, scalar, self.y),
                                  ScalarAddVector(4, scalar, self.z),
                                  ScalarAddVector(4, scalar, self.w))

\* Add<MatrixN> for f32: self + mat, the columns mat.x + self, ...
ScalarAddMatrix(n, self, mat) ==
    CASE n = 2 -> Matrix2FromCols(VectorAddScalar(2, mat.x, self),
                                  VectorAddScalar(2, mat.y, self))
      [] n = 3 -> Matrix3FromCols(VectorAddScalar(3, mat.x, self),
                                  VectorAddScalar(3, mat.y, self),
                                  VectorAddScalar(3, mat.z, self))
      [] n = 4 -> Matrix4FromCols(VectorAddScalar(4, mat.x, self),
                                  VectorAddScalar(4, mat.y, self),
                                  VectorAddScalar(4, mat.z, self),
                                  VectorAddScalar(4, mat.w, self))

\* PartialEq (derived) for MatrixN: column by column.
MatrixEq(n, a, b) ==
    /\ VectorEq(n, a.x, b.x) /\ VectorEq(n, a.y, b.y)
    /\ n >= 3 => VectorEq(n, a.z, b.z)
    /\ n >= 4 => VectorEq(n, a.w, b.w)

-----------------------------------------------------------------------------
(* The vector and matrix operations on their own.  A matrix of dimension   *)
(* n is given by its n rows, the arguments of MatrixN::new in order; the   *)
(* rows and the vectors are taken from RowVectors(n), which hold whole     *)
(* numbers, a fraction, both zeros, an infinity and NaN.  call records the *)
(* operation, its operands and what it returned.                           *)

Dimensions == {2, 3, 4}

\* The largest index handed to row and col.
MaxIndex == 5

RowVectors(n) ==
    CASE n = 2 -> { <<FromInt(1), FromInt(2)>>, <<FromInt(3), FromInt(4)>>,
                    <<(<<-3, 2>>), NegZero>>, <<INFINITY, NaN>> }
      [] n = 3 -> { <<FromInt(1), FromInt(2), FromInt(3)>>,
                    <<FromInt(4), FromInt(5), FromInt(6)>>,
                    <<FromInt(7), FromInt(8), FromInt(9)>>,
                    <<(<<-3, 2>>), Zero, NegZero>>,
                    <<INFINITY, One, NaN>> }
      [] n = 4 -> { <<FromInt(1), FromInt(2), FromInt(3), FromInt(4)>>,
                    <<FromInt(5), FromInt(6), FromInt(7), FromInt(8)>>,
                    <<(<<-3, 2>>), Zero, NegZero, Half>>,
                    <<INFINITY, One, NaN, FromInt(-1)>> }

MatrixRows(n) == [1..n -> RowVectors(n)]

Scalars == {Zero, One, FromInt(2), <<-3, 2>>, INFINITY, NaN}

CallInit ==
    /\ grid = GridNew(" ", 0, 0)
    /\ depth_buffer = GridNew(INFINITY, 0, 0)
    /\ pc = [at |-> "call", i |-> 0]
    /\ call = [op |-> "none"]
    /\ shadow = <<>>
    /\ drawn = <<>>
    /\ terminal = <<>>

\* m.row(index)
Row(n, rows, index) ==
    /\ call' = [op |-> "row", n |-> n, rows |-> rows, index |-> index,
                ret |-> MatrixRow(n, MatrixNew(n, rows), index)]
    /\ pc' = [at |-> "return", i |-> 0]
    /\ UNCHANGED <<grid, depth_buffer, shadow, drawn, terminal>>

\* m.col(index)
Col(n, rows, index) ==
    /\ call' = [op |-> "col", n |-> n, rows |-> rows, index |-> index,
                ret |-> MatrixCol(n, MatrixNew(n, rows), index)]
    /\ pc' = [at |-> "return", i |-> 0]
    /\ UNCHANGED <<grid, depth_buffer, shadow, drawn, terminal>>

\* v + s and s + v
AddVectorScalar(n, v, s) ==
    /\ call' = [op |-> "vector_scalar_add", n |-> n, v |-> v, s |-> s,
                ret |-> VectorAddScalar(n, VectorOf(n, v), s),
                ret_rev |-> ScalarAddVector(n, s, VectorOf(n, v))]
    /\ pc' = [at |-> "return", i |-> 0]
    /\ UNCHANGED <<grid, depth_buffer, shadow, drawn, terminal>>

\* m + s and s + m
AddMatrixScalar(n, rows, s) ==
    /\ call' = [op |-> "matrix_scalar_add", n |-> n, rows |-> rows, s |-> s,
                ret |-> MatrixAddScalar(n, MatrixNew(n, rows), s),
                ret_rev |-> ScalarAddMatrix(n, s, MatrixNew(n, rows))]
    /\ pc' = [at |-> "return", i |-> 0]
    /\ UNCHANGED <<grid, depth_buffer, shadow, drawn, terminal>>

\* m * v
MulVector(n, rows, v) ==
    /\ call' = [op |-> "matrix_vector_mul", n |-> n, rows |-> rows, v |-> v,
                ret |-> MatrixMulVector(n, MatrixNew(n, rows), VectorOf(n, v))]
    /\ pc' = [at |-> "return", i |-> 0]
    /\ UNCHANGED <<grid, depth_buffer, shadow, drawn, terminal>>

\* m.transpose() and m.transpose().transpose()
Transpose(n, rows) ==
    /\ call' = [op |-> "transpose", n |-> n, rows |-> rows,
                ret |-> MatrixTranspose(n, MatrixNew(n, rows)),
                ret_twice |-> MatrixTranspose(n, MatrixTranspose(n, MatrixNew(n, rows)))]
    /\ pc' = [at |-> "return", i |-> 0]
    /\ UNCHANGED <<grid, depth_buffer, shadow, drawn, terminal>>

\* m * identity() and identity() * m
MulIdentity(n, rows) ==
    /\ call' = [op |-> "identity_mul", n |-> n, rows |-> rows,
                ret |-> MatrixMul(n, MatrixNew(n, rows), MatrixIdentity(n)),
                ret_rev |-> MatrixMul(n, MatrixIdentity(n), MatrixNew(n, rows))]
    /\ pc' = [at |-> "return", i |-> 0]
    /\ UNCHANGED <<grid, depth_buffer, shadow, drawn, terminal>>

MatrixNext ==
    /\ pc.at = "call"
    /\ \E n \in Dimensions :
          \/ \E rows \in MatrixRows(n), index \in 0..MaxIndex : Row(n, rows, index)
          \/ \E rows \in MatrixRows(n), index \in 0..MaxIndex : Col(n, rows, index)
          \/ \E v \in RowVectors(n), s \in Scalars : AddVectorScalar(n, v, s)
          \/ \E rows \in MatrixRows(n), s \in Scalars : AddMatrixScalar(n, rows, s)
          \/ \E rows \in MatrixRows(n), v \in RowVectors(n) : MulVector(n, rows, v)
          \/ \E rows \in MatrixRows(n) : Transpose(n, rows)
          \/ n # 2 /\ \E rows \in MatrixRows(n) : MulIdentity(n, rows)

SpecMatrix == CallInit /\ [][MatrixNext]_vars

-----------------------------------------------------------------------------
(* Claims about the vector and matrix operations, checked under            *)
(* SpecMatrix.                                                             *)

\* Row r and column c (from 1) of the matrix given by its rows.
RowOf(rows, r) == rows[r]
ColOf(n, rows, c) == [r \in 1..n |-> rows[r][c]]

AllFinite(n, rows) ==
    \A r \in 1..n, c \in 1..n : ~IsNaN(rows[r][c]) /\ ~IsInf(rows[r][c])

\* C11: for an n x n matrix (n = 2, 3, 4), row(i) and col(i) return the i-th
\* row and the i-th column for every i in 0..n-1 and panic exactly for the
\* indices i >= n.
C11_RowColExactIndices ==
    /\ call.op = "row" =>
          IF call.index < call.n
          THEN call.ret = Some(VectorOf(call.n, RowOf(call.rows, call.index + 1)))
          ELSE call.ret = Panicked
    /\ call.op = "col" =>
          IF call.index < call.n
          THEN call.ret = Some(VectorOf(call.n, ColOf(call.n, call.rows, call.index + 1)))
          ELSE call.ret = Panicked

\* C13: adding a scalar is componentwise and independent of the operand
\* order: s + v and v + s are the same vector, each component that of v plus
\* s; M + s and s + M are the same matrix, every element increased by s.
C13_ScalarAddCommutes ==
    /\ call.op = "vector_scalar_add" =>
          /\ call.ret = call.ret_rev
          /\ call.ret = VectorOf(call.n, [k \in 1..call.n |-> FAdd(call.v[k], call.s)])
    /\ call.op = "matrix_scalar_add" =>
          /\ call.ret = call.ret_rev
          /\ call.ret = MatrixNew(call.n,
                            [r \in 1..call.n |->
                                [c \in 1..call.n |-> FAdd(call.rows[r][c], call.s)]])

\* C14: component r of M * v is dot(row(M, r), v), where row(M, r) is the
\* r-th group of n arguments of MatrixN::new (row-major order).
C14_MulVectorIsRowDot ==
    call.op = "matrix_vector_mul" =>
        LET m == MatrixNew(call.n, call.rows)
            v == VectorOf(call.n, call.v)
        IN  \A r \in 1..call.n :
               /\ MatrixRow(call.n, m, r - 1) = Some(VectorOf(call.n, call.rows[r]))
               /\ Components(call.n, call.ret)[r] =
                     VectorDot(call.n, VectorOf(call.n, call.rows[r]), v)

\* A 3 x 3 matrix that is not symmetric was multiplied with a vector that
\* has three different components.
C14_Witness ==
    /\ call.op = "matrix_vector_mul" /\ call.n = 3
    /\ call.rows = <<(<<FromInt(1), FromInt(2), FromInt(3)>>),
                     (<<FromInt(4), FromInt(5), FromInt(6)>>),
                     (<<FromInt(7), FromInt(8), FromInt(9)>>)>>
    /\ call.v = <<FromInt(1), FromInt(2), FromInt(3)>>
    /\ call.ret = Vector3(FromInt(14), FromInt(32), FromInt(50))

\* C15: transpose(transpose(M)) is M, and row(transpose(M), i) is col(M, i)
\* for every i in 0..n-1.
C15_TransposeInvolution ==
    call.op = "transpose" =>
        /\ call.ret_twice = MatrixNew(call.n, call.rows)
        /\ \A i \in 0..(call.n - 1) :
              MatrixRow(call.n, call.ret, i) = MatrixCol(call.n, MatrixNew(call.n, call.rows), i)

\* C16 as claimed: for every Matrix3 and Matrix4 M, M * identity() == M and
\* identity() * M == M.
C16_IdentityIsUnit ==
    call.op = "identity_mul" =>
        /\ MatrixEq(call.n, call.ret, MatrixNew(call.n, call.rows))
        /\ MatrixEq(call.n, call.ret_rev, MatrixNew(call.n, call.rows))

\* C16 as amended: for every Matrix3 and Matrix4 M whose elements are all
\* finite, M * identity() == M and identity() * M == M.
C16_IdentityIsUnitOfFinite ==
    (call.op = "identity_mul" /\ AllFinite(call.n, call.rows)) =>
        /\ MatrixEq(call.n, call.ret, MatrixNew(call.n, call.rows))
        /\ MatrixEq(call.n, call.ret_rev, MatrixNew(call.n, call.rows))

\* A finite 4 x 4 matrix with a negative zero and a non-zero last column
\* was multiplied with the identity.
C16_Witness ==
    /\ call.op = "identity_mul" /\ call.n = 4
    /\ AllFinite(call.n, call.rows)
    /\ call.rows[1] = <<(<<-3, 2>>), Zero, NegZero, Half>>
    /\ call.rows[2] = <<FromInt(5), FromInt(6), FromInt(7), FromInt(8)>>

-----------------------------------------------------------------------------
(* Model::load (model.rs).  A string is the sequence of its characters; a  *)
(* file that can be read is the sequence of its lines (what                *)
(* data.lines() yields).                                                   *)

\* Angle::Degrees, Angle::Radians (rotation.rs).  The value of Radians is
\* kept in units of pi.
Degrees(value) == [unit |-> "Degrees", value |-> value]
Radians(value) == [unit |-> "Radians", value |-> value]

\* str::split: the pieces of s between the occurrences of sep; cur is the
\* piece being read, acc the pieces before it.
RECURSIVE SplitAcc(_, _, _, _)
SplitAcc(s, sep, cur, acc) ==
    IF s = <<>> THEN Append(acc, cur)
    ELSE IF Head(s) = sep THEN SplitAcc(Tail(s), sep, <<>>, Append(acc, cur))
    ELSE SplitAcc(Tail(s), sep, Append(cur, Head(s)), acc)

Split(s, sep) == SplitAcc(s, sep, <<>>, <<>>)

IsDigit(c) == c \in {"0", "1", "2", "3", "4", "5", "6", "7", "8", "9"}

DigitValue(c) ==
    CASE c = "0" -> 0 [] c = "1" -> 1 [] c = "2" -> 2 [] c = "3" -> 3 [] c = "4" -> 4
      [] c = "5" -> 5 [] c = "6" -> 6 [] c = "7" -> 7 [] c = "8" -> 8 [] c = "9" -> 9

AllDigits(s) == \A i \in 1..Len(s) : IsDigit(s[i])

RECURSIVE DigitsValue(_, _)
DigitsValue(s, acc) ==
    IF s = <<>> THEN acc ELSE DigitsValue(Tail(s), 10 * acc + DigitValue(Head(s)))

\* str::parse::<usize>().ok(): an optional '+' and at least one digit.
ParseUsize(s) ==
    LET body == IF s # <<>> /\ Head(s) = "+" THEN Tail(s) ELSE s
    IN  IF body # <<>> /\ AllDigits(body) THEN Some(DigitsValue(body, 0)) ELSE None

\* str::parse::<f32>().ok() on the decimal forms: an optional sign, digits
\* and at most one '.', with a digit on one side of it at least.  (The
\* exponent forms and the words inf and nan, which parse too, are not among
\* the strings of the model.)
ParseF32(s) ==
    LET signed == s # <<>> /\ Head(s) \in {"+", "-"}
        neg == signed /\ Head(s) = "-"
        body == IF signed THEN Tail(s) ELSE s
        parts == Split(body, ".")
        int == parts[1]
        frac == IF Len(parts) = 2 THEN parts[2] ELSE <<>>
        n == DigitsValue(int \o frac, 0)
    IN  IF \/ Len(parts) > 2
           \/ ~AllDigits(int) \/ ~AllDigits(frac)
           \/ int \o frac = <<>>
        THEN None
        ELSE IF n = 0 THEN Some(SignedZero(neg))
        ELSE Some(Rat(IF neg THEN -n ELSE n, 10 ^ Len(frac)))

\* vert.iter().filter_map(|s| s.parse::<f32>().ok()).collect()
RECURSIVE FilterParseF32(_)
FilterParseF32(vert) ==
    IF vert = <<>> THEN <<>>
    ELSE ParseF32(Head(vert)) \o FilterParseF32(Tail(vert))

\* Model::to_vector3
ToVector3(vert) ==
    LET parsed == FilterParseF32(vert)
    IN  IF Len(parsed) # 3 THEN None
        ELSE Some(Vector3(parsed[1], parsed[2], parsed[3]))

\* Model::to_vector2
ToVector2(vert) ==
    LET parsed == FilterParseF32(vert)
    IN  IF Len(parsed) # 2 THEN None
        ELSE Some(Vector2(parsed[1], parsed[2]))

NoMesh == [vertices |-> <<>>, normals |-> <<>>, tex_coords |-> <<>>, faces |-> <<>>]

\* The body of `for line in &data`: Some(the four vectors afterwards), or
\* Panicked where split_first finds no command.
ReadLine(mesh, text) ==
    LET line == Split(text, " ")
        command == Head(line)
        parameters == Tail(line)
    IN  IF line = <<>> THEN Panicked
        ELSE IF command = <<"v">>
        THEN Some([mesh EXCEPT !.vertices = @ \o ToVector3(parameters)])
        ELSE IF command = <<"v", "n">>
        THEN Some([mesh EXCEPT !.normals = @ \o ToVector3(parameters)])
        ELSE IF command = <<"v", "t">>
        THEN Some([mesh EXCEPT !.tex_coords = @ \o ToVector2(parameters)])
        ELSE IF command = <<"f">>
        THEN Some([mesh EXCEPT !.faces = Append(@, parameters)])
        ELSE Some(mesh)

\* for line in &data { ... }, from the lines `data` on.
RECURSIVE ReadLines(_, _)
ReadLines(mesh, data) ==
    IF data = <<>> THEN Some(mesh)
    ELSE LET r == ReadLine(mesh, Head(data))
         IN  IF r = Panicked THEN Panicked ELSE ReadLines(r[1], Tail(data))

\* The body of `for vertex in face`: Some(the VertexData), or Panicked
\* where the first field is no usize (the second unwrap of
\* (*vertex.get(0).unwrap()).unwrap()).
ReadVertex(text) ==
    LET fields == Split(text, "/")
        vertex == [i \in 1..Len(fields) |-> ParseUsize(fields[i])]
    IN  IF vertex[1] = None THEN Panicked
        ELSE Some([pos |-> vertex[1][1],
                   tex_coord |-> IF Len(vertex) >= 2 THEN vertex[2] ELSE None,
                   normal |-> IF Len(vertex) >= 3 THEN vertex[3] ELSE None])

\* for vertex in face { ... f.push(vertex) }: Some(f) or Panicked.
RECURSIVE ReadFace(_, _)
ReadFace(f, face) ==
    IF face = <<>> THEN Some(f)
    ELSE LET v == ReadVertex(Head(face))
         IN  IF v = Panicked THEN Panicked ELSE ReadFace(f \o v, Tail(face))

\* for face in &faces { ...; if f.len() == 3 { data.push(...) } }
RECURSIVE ReadFaces(_, _)
ReadFaces(data, faces) ==
    IF faces = <<>> THEN Some(data)
    ELSE LET f == ReadFace(<<>>, Head(faces))
         IN  IF f = Panicked THEN Panicked
             ELSE ReadFaces(IF Len(f[1]) = 3 THEN Append(data, f[1]) ELSE data,
                            Tail(faces))

\* Model::load: file is None where fs::read_to_string fails and Some(lines)
\* otherwise.  The result is Some(None), Some(Some(model)) or Panicked.
ModelLoad(file) ==
    IF file = None THEN Some(None)
    ELSE LET mesh == ReadLines(NoMesh, file[1])
             data == ReadFaces(<<>>, mesh[1].faces)
         IN  IF mesh = Panicked \/ data = Panicked THEN Panicked
             ELSE Some(Some([data |-> data[1],
                             vertices |-> mesh[1].vertices,
                             normals |-> mesh[1].normals,
                             tex_coords |-> mesh[1].tex_coords,
                             transform |-> [yaw |-> Degrees(Zero), pitch |-> Degrees(Zero),
                                            roll |-> Degrees(Zero),
                                            position |-> Vector3(Zero, Zero, Zero),
                                            scale |-> <<1, 10>>]]))

\* The most lines a file of the model has.
MaxLines == 2

\* The lines the files are made of:
\*   "v 1 2 3"   "v -1.5 2 3"   "v 1 x 3"   "vn 0 0 1"   "vt .5 1"   "f 1 2 3"
\*   "f 1/1/1 2//1 3/x"   "f 1 x 3"   "f 1 2"   "f 1 1//1 1/1"   ""   "# c"
FileLines ==
    { <<"v", " ", "1", " ", "2", " ", "3">>,
      <<"v", " ", "-", "1", ".", "5", " ", "2", " ", "3">>,
      <<"v", " ", "1", " ", "x", " ", "3">>,
      <<"v", "n", " ", "0", " ", "0", " ", "1">>,
      <<"v", "t", " ", ".", "5", " ", "1">>,
      <<"f", " ", "1", " ", "2", " ", "3">>,
      <<"f", " ", "1", "/", "1", "/", "1", " ", "2", "/", "/", "1", " ", "3", "/", "x">>,
      <<"f", " ", "1", " ", "x", " ", "3">>,
      <<"f", " ", "1", " ", "2">>,
      <<"f", " ", "1", " ", "1", "/", "/", "1", " ", "1", "/", "1">>,
      <<>>,
      <<"#", " ", "c">> }

RECURSIVE Files(_)
Files(k) ==
    IF k = 0 THEN {<<>>}
    ELSE Files(k - 1) \cup {Append(f, l) : f \in {g \in Files(k - 1) : Len(g) = k - 1},
                                          l \in FileLines}

\* Model::load(path), the path naming `file`.
Load(file) ==
    /\ call' = [op |-> "load", file |-> file, ret |-> ModelLoad(file)]
    /\ pc' = [at |-> "return", i |-> 0]
    /\ UNCHANGED <<grid, depth_buffer, shadow, drawn, terminal>>

\* Vertex::new: Some(the Vertex) or Panicked.  `index - 1` on index 0 panics
\* (overflow check) or wraps to usize::MAX, where get returns None and the
\* unwrap or expect panics.
VertexNew(data, model) ==
    IF data.pos = 0 \/ data.pos - 1 >= Len(model.vertices) THEN Panicked
    ELSE IF data.tex_coord # None
            /\ (data.tex_coord[1] = 0 \/ data.tex_coord[1] - 1 >= Len(model.tex_coords))
    THEN Panicked
    ELSE IF data.normal # None
            /\ (data.normal[1] = 0 \/ data.normal[1] - 1 >= Len(model.normals))
    THEN Panicked
    ELSE Some([pos |-> model.vertices[data.pos],
               tex_coord |-> IF data.tex_coord = None THEN None
                             ELSE Some(model.tex_coords[data.tex_coord[1]]),
               normal |-> IF data.normal = None THEN None
                          ELSE Some(model.normals[data.normal[1]])])

\* Vertex::new(&data, &model) for the three vertices of every face of the
\* model that Model::load returned.
Resolve ==
    /\ pc.at = "return" /\ call.op = "load"
    /\ call.ret # Panicked /\ call.ret # Some(None)
    /\ LET model == call.ret[1][1]
           resolved == [f \in 1..Len(model.data) |->
                           [k \in 1..3 |-> VertexNew(model.data[f][k], model)]]
       IN  call' = [op |-> "resolve", file |-> call.file, model |-> model,
                    ret |-> IF \E f \in 1..Len(model.data), k \in 1..3 :
                                   resolved[f][k] = Panicked
                            THEN Panicked ELSE Some(resolved)]
    /\ pc' = [at |-> "resolved", i |-> 0]
    /\ UNCHANGED <<grid, depth_buffer, shadow, drawn, terminal>>

LoadNext ==
    \/ /\ pc.at = "call"
       /\ \E file \in {None} \cup {Some(f) : f \in Files(MaxLines)} : Load(file)
    \/ Resolve

SpecLoad == CallInit /\ [][LoadNext]_vars

\* C12: Model::load never aborts the process: for an unreadable path it
\* returns None, and for every readable content, the v/vn/vt lines and the
\* face entries whose numeric fields do not parse included, it returns a
\* model.
C12_LoadNeverAborts ==
    call.op = "load" =>
        /\ call.ret # Panicked
        /\ call.file = None => call.ret = Some(None)
        /\ call.file # None => call.ret # Some(None)

-----------------------------------------------------------------------------
(* The transform builders (matrix3.rs, matrix4.rs).  An angle is a whole   *)
(* number of quarter turns, where sine and cosine are -1, 0 or 1: the      *)
(* rounding of pi and of the trigonometric functions is not modelled.      *)

\* f32::to_radians, in units of pi
ToRadians(degrees) == FDiv(degrees, FromInt(180))

\* match angle { Degrees(degrees) => degrees.to_radians(), Radians(radians) => radians }
AngleRadians(angle) ==
    IF angle.unit = "Degrees" THEN ToRadians(angle.value) ELSE angle.value

\* The quarter turns (0..3) of an angle of k * pi / 2 radians.
QuarterTurns(radians) == FMul(radians, FromInt(2))[1] % 4

\* f32::cos, f32::sin at the quarter turns
Cos(radians) ==
    CASE QuarterTurns(radians) = 0 -> One
      [] QuarterTurns(radians) = 1 -> Zero
      [] QuarterTurns(radians) = 2 -> FNeg(One)
      [] QuarterTurns(radians) = 3 -> Zero

Sin(radians) ==
    CASE QuarterTurns(radians) = 0 -> Zero
      [] QuarterTurns(radians) = 1 -> One
      [] QuarterTurns(radians) = 2 -> Zero
      [] QuarterTurns(radians) = 3 -> FNeg(One)

\* x_rotation_matrix
Matrix3XRotation(angle) ==
    LET cos == Cos(AngleRadians(angle))
        sin == Sin(AngleRadians(angle))
    IN  Matrix3New(One, Zero, Zero,
                   Zero, cos, FNeg(sin),
                   Zero, sin, cos)

\* y_rotation_matrix
Matrix3YRotation(angle) ==
    LET cos == Cos(AngleRadians(angle))
        sin == Sin(AngleRadians(angle))
    IN  Matrix3New(cos, Zero, sin,
                   Zero, One, Zero,
                   FNeg(sin), Zero, cos)

\* z_rotation_matrix with sin in place of the second cos.
Matrix3ZRotation_SinForCos(angle) ==
    LET cos == Cos(AngleRadians(angle))
        sin == Sin(AngleRadians(angle))
    IN  Matrix3New(cos, FNeg(sin), Zero,
                   sin, sin, Zero,
                   Zero, Zero, One)

\* z_rotation_matrix
Matrix3ZRotation(angle) ==
    LET cos == Cos(AngleRadians(angle))
        sin == Sin(AngleRadians(angle))
    IN  Matrix3New(cos, FNeg(sin), Zero,
                   sin, cos, Zero,
                   Zero, Zero, One)

\* rotation_matrix with the factors the other way round.
Matrix3Rotation_XYZ(yaw, pitch, roll) ==
    MatrixMul(3, MatrixMul(3, Matrix3XRotation(yaw), Matrix3YRotation(pitch)),
               Matrix3ZRotation(roll))

\* rotation_matrix: z_rotation(roll) * y_rotation(pitch) * x_rotation(yaw)
Matrix3Rotation(yaw, pitch, roll) ==
    MatrixMul(3, MatrixMul(3, Matrix3ZRotation(roll), Matrix3YRotation(pitch)),
               Matrix3XRotation(yaw))

\* Matrix4::to_homogenous
Matrix4ToHomogenous(mat) ==
    Matrix4FromCols(Vector4FromVector3(mat.x, Zero), Vector4FromVector3(mat.y, Zero),
                    Vector4FromVector3(mat.z, Zero), Vector4(Zero, Zero, Zero, One))

\* Rotation for Matrix4: rotation
Matrix4Rotation(yaw, pitch, roll) == Matrix4ToHomogenous(Matrix3Rotation(yaw, pitch, roll))

\* Matrix4::translation
Matrix4Translation(t) ==
    Matrix4FromCols(Vector4(FromInt(1), FromInt(0), FromInt(0), FromInt(0)),
                    Vector4(FromInt(0), FromInt(1), FromInt(0), FromInt(0)),
                    Vector4(FromInt(0), FromInt(0), FromInt(1), FromInt(0)),
                    Vector4ToHomogeneous(t))

\* Matrix4::view with the rotation not transposed.
Matrix4View_NoTranspose(yaw, pitch, roll, t) ==
    MatrixMul(4, Matrix4Rotation(yaw, pitch, roll), Matrix4Translation(Vector3Neg(t)))

\* Matrix4::view
Matrix4View(yaw, pitch, roll, t) ==
    MatrixMul(4, MatrixTranspose(4, Matrix4Rotation(yaw, pitch, roll)),
               Matrix4Translation(Vector3Neg(t)))

\* The angles: whole quarter turns in degrees, and pi / 2 in radians.
Angles ==
    {Degrees(FromInt(d)) : d \in {-90, 0, 90, 180, 270}} \cup {Radians(Half)}

\* The vectors that are rotated and the camera positions.
BasisX == Vector3(One, Zero, Zero)
BasisY == Vector3(Zero, One, Zero)
BasisZ == Vector3(Zero, Zero, One)

RotatedVectors ==
    {BasisX, BasisY, BasisZ, Vector3(FromInt(1), FromInt(2), FromInt(3)),
     Vector3(<<-3, 2>>, Zero, Half)}

Positions ==
    {Vector3(Zero, Zero, Zero), Vector3(FromInt(1), FromInt(2), FromInt(3)),
     Vector3(<<-3, 2>>, Zero, FromInt(5))}

Axes == {"x", "y", "z"}

AxisRotationMatrix(n, axis, angle) ==
    CASE n = 3 /\ axis = "x" -> Matrix3XRotation(angle)
      [] n = 3 /\ axis = "y" -> Matrix3YRotation(angle)
      [] n = 3 /\ axis = "z" -> Matrix3ZRotation(angle)
      [] n = 4 /\ axis = "x" -> Matrix4ToHomogenous(Matrix3XRotation(angle))
      [] n = 4 /\ axis = "y" -> Matrix4ToHomogenous(Matrix3YRotation(angle))
      [] n = 4 /\ axis = "z" -> Matrix4ToHomogenous(Matrix3ZRotation(angle))

RotationMatrix(n, yaw, pitch, roll) ==
    CASE n = 3 -> Matrix3Rotation(yaw, pitch, roll)
      [] n = 4 -> Matrix4Rotation(yaw, pitch, roll)

\* MatrixN::x_rotation(angle), y_rotation, z_rotation
AxisRotation(n, axis, angle) ==
    /\ call' = [op |-> "axis_rotation", n |-> n, axis |-> axis, angle |-> angle,
                ret |-> AxisRotationMatrix(n, axis, angle)]
    /\ pc' = [at |-> "return", i |-> 0]
    /\ UNCHANGED <<grid, depth_buffer, shadow, drawn, terminal>>

\* MatrixN::rotation(yaw, pitch, roll)
Rotation(n, yaw, pitch, roll) ==
    /\ call' = [op |-> "rotation", n |-> n, yaw |-> yaw, pitch |-> pitch, roll |-> roll,
                ret |-> RotationMatrix(n, yaw, pitch, roll)]
    /\ pc' = [at |-> "return", i |-> 0]
    /\ UNCHANGED <<grid, depth_buffer, shadow, drawn, terminal>>

\* Matrix3::rotation(yaw, pitch, roll) * v
Rotate(yaw, pitch, roll, v) ==
    /\ call' = [op |-> "rotate", yaw |-> yaw, pitch |-> pitch, roll |-> roll, v |-> v,
                ret |-> MatrixMulVector(3, Matrix3Rotation(yaw, pitch, roll), v)]
    /\ pc' = [at |-> "return", i |-> 0]
    /\ UNCHANGED <<grid, depth_buffer, shadow, drawn, terminal>>

\* Matrix4::view(yaw, pitch, roll, t)
View(yaw, pitch, roll, t) ==
    /\ call' = [op |-> "view", yaw |-> yaw, pitch |-> pitch, roll |-> roll, t |-> t,
                ret |-> Matrix4View(yaw, pitch, roll, t)]
    /\ pc' = [at |-> "return", i |-> 0]
    /\ UNCHANGED <<grid, depth_buffer, shadow, drawn, terminal>>

\* f32::tan at the eighth turn and at 0
Tan(radians) ==
    CASE radians = <<1, 4>> -> One
      [] IsZero(radians) -> Zero

\* Matrix4::perspective
Matrix4Perspective(fov, z_far, z_near, aspect) ==
    LET tan == Tan(FDiv(AngleRadians(fov), FromInt(2)))
        x == Vector4(FDiv(One, FMul(aspect, tan)), FromInt(0), FromInt(0), FromInt(0))
        y == Vector4(FromInt(0), FDiv(One, tan), FromInt(0), FromInt(0))
        z == Vector4(FromInt(0), FromInt(0),
                     FNeg(FDiv(FAdd(z_far, z_near), FSub(z_far, z_near))), FromInt(-1))
        w == Vector4(FromInt(0), FromInt(0),
                     FNeg(FDiv(FMul(FMul(FromInt(2), z_far), z_near), FSub(z_far, z_near))),
                     FromInt(0))
    IN  Matrix4FromCols(x, y, z, w)

\* Vector4::cartesian: x, y, z divided by w.
Vector4Cartesian(v) == Vector3(FDiv(v.x, v.w), FDiv(v.y, v.w), FDiv(v.z, v.w))

\* Mul<Vector3> for Matrix4: homogenous, the linear combination, cartesian
Matrix4MulVector3(self, v) ==
    Vector4Cartesian(MatrixMulVector(4, self, Vector4ToHomogeneous(v)))

\* to_screen_coordinates
ToScreenCoordinates(vec) ==
    Vector3(FMul(FDiv(FAdd(vec.x, One), FromInt(2)), FromInt(WIDTH)),
            FMul(FDiv(FAdd(vec.y, One), FromInt(2)), FromInt(HEIGHT)),
            vec.z)

\* The near and far planes <<z_near, z_far>>, and the view-space points:
\* the camera looks along -z, a point at depth d has z = -d.
Planes == {<<FromInt(1), FromInt(3)>>, <<Half, FromInt(2)>>, <<FromInt(1), FromInt(5)>>}

ViewZs ==
    {<<-1, 4>>, <<-1, 2>>, <<-1, 1>>, <<-5, 4>>, <<-3, 2>>, <<-2, 1>>, <<-5, 2>>, <<-3, 1>>,
     <<-4, 1>>, <<-6, 1>>, Zero, <<1, 1>>, <<2, 1>>}

ViewPoints ==
    {Vector3(FromInt(x), FromInt(y), z) : <<x, y, z>> \in {-1, 0, 1} \X {0, 1} \X ViewZs}

\* The perspective matrix main builds (fov of 90 degrees, aspect WIDTH / HEIGHT)
\* for the planes, and the projection of a view-space point to the screen.
ProjectPoint(planes, v) ==
    ToScreenCoordinates(
        Matrix4MulVector3(
            Matrix4Perspective(Degrees(FromInt(90)), planes[2], planes[1],
                               FDiv(FromInt(WIDTH), FromInt(HEIGHT))),
            v))

\* to_screen_coordinates(perspective * v)
Project(planes, v) ==
    /\ call' = [op |-> "project", z_near |-> planes[1], z_far |-> planes[2], v |-> v,
                ret |-> ProjectPoint(planes, v)]
    /\ pc' = [at |-> "return", i |-> 0]
    /\ UNCHANGED <<grid, depth_buffer, shadow, drawn, terminal>>

RotationNext ==
    /\ pc.at = "call"
    /\ \/ \E n \in {3, 4}, axis \in Axes, angle \in Angles : AxisRotation(n, axis, angle)
       \/ \E n \in {3, 4}, yaw \in Angles, pitch \in Angles, roll \in Angles :
             Rotation(n, yaw, pitch, roll)
       \/ \E yaw \in Angles, pitch \in Angles, roll \in Angles, v \in RotatedVectors :
             Rotate(yaw, pitch, roll, v)
       \/ \E yaw \in Angles, pitch \in Angles, roll \in Angles, t \in Positions :
             View(yaw, pitch, roll, t)
       \/ \E planes \in Planes, v \in ViewPoints : Project(planes, v)

SpecRotation == CallInit /\ [][RotationNext]_vars

-----------------------------------------------------------------------------
(* Claims about the transform builders, checked under SpecRotation.        *)

IsZeroAngle(angle) == IsZero(angle.value)

IsRightAngle(angle) == angle = Degrees(FromInt(90)) \/ angle = Radians(Half)

\* C17: rotation(yaw, pitch, roll) applied to a vector rotates it about x by
\* yaw, then about y by pitch, then about z by roll; with pitch = roll = 0 it
\* is the x rotation, and rotation(90 degrees, 0, 0) maps the basis vectors
\* as Rx(90 degrees) does: x to x, y to z, z to -y.
C17_RotationOrder ==
    call.op = "rotate" =>
        /\ VectorEq(3, call.ret,
               MatrixMulVector(3, Matrix3ZRotation(call.roll),
                   MatrixMulVector(3, Matrix3YRotation(call.pitch),
                       MatrixMulVector(3, Matrix3XRotation(call.yaw), call.v))))
        /\ (IsZeroAngle(call.pitch) /\ IsZeroAngle(call.roll)) =>
              /\ VectorEq(3, call.ret, MatrixMulVector(3, Matrix3XRotation(call.yaw), call.v))
              /\ MatrixEq(3, Matrix3Rotation(call.yaw, call.pitch, call.roll),
                           Matrix3XRotation(call.yaw))
              /\ IsRightAngle(call.yaw) =>
                    /\ call.v = BasisX => VectorEq(3, call.ret, BasisX)
                    /\ call.v = BasisY => VectorEq(3, call.ret, BasisZ)
                    /\ call.v = BasisZ => VectorEq(3, call.ret, Vector3Neg(BasisY))

\* A vector off the axes was rotated by a quarter turn about x and then a
\* quarter turn about y: the order of the two shows in the result.
C17_Witness ==
    /\ call.op = "rotate"
    /\ call.yaw = Degrees(FromInt(90)) /\ call.pitch = Degrees(FromInt(90))
    /\ IsZeroAngle(call.roll)
    /\ call.v = Vector3(FromInt(1), FromInt(2), FromInt(3))
    /\ VectorEq(3, call.ret, Vector3(FromInt(2), FromInt(-3), FromInt(-1)))

\* C18: every matrix R the rotation builders produce (about x, y, z and the
\* composite) at whole quarter turns is orthonormal: R * transpose(R) equals
\* the identity.
C18_RotationOrthonormal ==
    call.op \in {"axis_rotation", "rotation"} =>
        MatrixEq(call.n, MatrixMul(call.n, call.ret, MatrixTranspose(call.n, call.ret)),
                 MatrixIdentity(call.n))

\* A composite rotation that is not symmetric, with all three angles set.
C18_Witness ==
    /\ call.op = "rotation" /\ call.n = 3
    /\ call.yaw = Degrees(FromInt(90)) /\ call.pitch = Degrees(FromInt(180))
    /\ call.roll = Degrees(FromInt(-90))
    /\ ~MatrixEq(3, call.ret, MatrixTranspose(3, call.ret))

\* C19: view(yaw, pitch, roll, t) is transpose(rotation(yaw, pitch, roll)) *
\* translation(-t), and its product with the camera's world transform
\* translation(t) * rotation(yaw, pitch, roll), in either order, is the
\* identity.
C19_ViewInvertsWorld ==
    call.op = "view" =>
        LET rot == Matrix4Rotation(call.yaw, call.pitch, call.roll)
            world == MatrixMul(4, Matrix4Translation(call.t), rot)
        IN  /\ MatrixEq(4, call.ret,
                   MatrixMul(4, MatrixTranspose(4, rot), Matrix4Translation(Vector3Neg(call.t))))
            /\ MatrixEq(4, MatrixMul(4, call.ret, world), MatrixIdentity(4))
            /\ MatrixEq(4, MatrixMul(4, world, call.ret), MatrixIdentity(4))

\* The view of a camera that is turned about two axes and away from the
\* origin.
C19_Witness ==
    /\ call.op = "view"
    /\ call.yaw = Degrees(FromInt(90)) /\ call.pitch = Radians(Half)
    /\ call.t = Vector3(FromInt(1), FromInt(2), FromInt(3))
    /\ ~MatrixEq(4, call.ret, MatrixTranspose(4, call.ret))

-----------------------------------------------------------------------------
(* The text of a Grid, checked under SpecGrid.                             *)

\* C20: the text Display produces for a grid consists of exactly height
\* lines; line y holds the cells (0,y), (1,y), ..., (width-1,y) in that
\* order with nothing between them, and every line, the last included, ends
\* with a newline.
C20_DisplayRowMajorLines ==
    call.op = "fmt" =>
        LET w == grid.width
            h == grid.height
            text == call.ret
        IN  /\ Len(text) = h * (w + 1)
            /\ Cardinality({i \in 1..Len(text) : text[i] = "\n"}) = h
            /\ \A y \in 0..(h - 1) :
                  /\ \A x \in 0..(w - 1) :
                        text[y * (w + 1) + x + 1] = grid.data[y * w + x + 1]
                  /\ text[y * (w + 1) + w + 1] = "\n"

\* A grid with more than one row and column whose rows differ and whose
\* first row holds two different cells was displayed.
C20_Witness ==
    /\ call.op = "fmt"
    /\ grid.width > 1 /\ grid.height > 1
    /\ GridGet(grid, 0, 0) # GridGet(grid, 1, 0)
    /\ GridGet(grid, 0, 0) # GridGet(grid, 0, 1)
    /\ GridGet(grid, 1, 0) = GridGet(grid, 0, 1)

-----------------------------------------------------------------------------
(* Claims about the edge values and the depth of a pixel, checked under    *)
(* SpecRaster on the triangle of the call.                                 *)

\* The pixel a vertex lies on (the vertices of the model have whole
\* coordinates).
PixelOf(v) == <<AsUsize(v.x), AsUsize(v.y)>>

\* Twice the signed area of the triangle a, b, c in the screen plane.
SignedArea2(a, b, c) ==
    FSub(FMul(FSub(b.x, a.x), FSub(c.y, a.y)), FMul(FSub(b.y, a.y), FSub(c.x, a.x)))

\* The pixels the loops of rasterize_triangle visit for t.
Tested(t) ==
    LET box == GetBoundingBox(t)
    IN  {p \in Pixels : box[1] <= p[1] /\ p[1] < box[3] /\ box[2] <= p[2] /\ p[2] < box[4]}

\* C21: for a non-degenerate triangle that passes the z-range check, the
\* depth computed at the pixel of vertex a is a.z, at the pixel of b it is
\* b.z and at the pixel of c it is c.z.
C21_DepthAtVertexIsVertexZ ==
    (Called /\ InZRange(call.t) /\ ~Collinear(call.t)) =>
        \A v \in {call.t.a, call.t.b, call.t.c} : FEq(DepthAt(call.t, PixelOf(v)), v.z)

\* C22: for a triangle with abc # 0 and every pixel p the loops test,
\* edge(a,b,p) + edge(b,c,p) + edge(c,a,p) = edge(a,b,c) and the weights
\* abp/abc, bcp/abc, cap/abc sum to 1, whatever the z values of the vertices.
C22_WeightsSumToOne ==
    LET abc == EdgeFunction(call.t.a, call.t.b, call.t.c)
    IN  (Called /\ InZRange(call.t) /\ ~FEq(abc, Zero)) =>
            \A p \in Tested(call.t) :
                LET e == PixelEdges(call.t, p[1], p[2])
                IN  /\ FEq(FAdd(FAdd(e.abp, e.bcp), e.cap), abc)
                    /\ FEq(FAdd(FAdd(FDiv(e.abp, abc), FDiv(e.bcp, abc)), FDiv(e.cap, abc)),
                           One)

\* C23: edge_function(a, b, c) is twice the signed area of the triangle
\* a, b, c in the screen plane, whatever the z components, and is zero
\* exactly when the three points are collinear in the screen plane.
C23_EdgeIsTwiceSignedArea ==
    Called =>
        LET abc == EdgeFunction(call.t.a, call.t.b, call.t.c)
        IN  /\ FEq(abc, SignedArea2(call.t.a, call.t.b, call.t.c))
            /\ FEq(abc, Zero) <=> Collinear(call.t)

\* C24: a pixel passes the inside test iff its three edge values are all
\* >= 0 or all <= 0, so rasterizing the vertices in the order (a, b, c) and
\* in the order (a, c, b) onto freshly cleared grids fills the same pixels,
\* those on an edge included.
C24_WindingOrderAgnostic ==
    (Called /\ call.before = FreshBuffers) =>
        LET t == call.t
            swapped == RasterizeTriangle(Triangle(t.a, t.c, t.b), FreshBuffers, call.value)
        IN  /\ \A p \in Tested(t) :
                  LET e == PixelEdges(t, p[1], p[2])
                  IN  IsInside(e) <=>
                         \/ FGe(e.abp, Zero) /\ FGe(e.bcp, Zero) /\ FGe(e.cap, Zero)
                         \/ FGe(Zero, e.abp) /\ FGe(Zero, e.bcp) /\ FGe(Zero, e.cap)
            /\ \A p \in Pixels :
                  (CellAt(grid, p[1], p[2]) # " ") <=> (CellAt(swapped[1], p[1], p[2]) # " ")

-----------------------------------------------------------------------------
(* Claims about the depth test.                                            *)

\* C25: a call overwrites a pixel only when the depth it stores is strictly
\* smaller than the depth stored before, and a pixel the triangle covers
\* with exactly the stored depth keeps its character and its depth.
C25_StrictlyNearerOverwrites ==
    Called =>
        \A p \in Pixels :
            /\ Wrote(p) =>
                  FLt(CellAt(depth_buffer, p[1], p[2]), CellAt(call.before[2], p[1], p[2]))
            /\ (Covers(call.t, p) /\ InZRange(call.t)
                   /\ FEq(DepthAt(call.t, p), CellAt(call.before[2], p[1], p[2])))
                  => ~Wrote(p)

\* C28: in the triangle loop of a frame, after any sequence of
\* rasterize_triangle calls on the freshly cleared buffers, a colour cell
\* differs from ' ' iff the depth cell at the same coordinates differs from
\* +infinity.
C28_ColourAndDepthWrittenTogether ==
    pc.at = "triangles" =>
        \A p \in Pixels :
            (CellAt(grid, p[1], p[2]) # " ") <=> (CellAt(depth_buffer, p[1], p[2]) # INFINITY)

\* C29: every rasterize_triangle call leaves each depth cell less than or
\* equal to its value before the call, and changes the character of a pixel
\* only if it strictly decreases the depth of that pixel.
C29_DepthNeverIncreases ==
    Called =>
        \A p \in Pixels :
            /\ FGe(CellAt(call.before[2], p[1], p[2]), CellAt(depth_buffer, p[1], p[2]))
            /\ CellAt(grid, p[1], p[2]) # CellAt(call.before[1], p[1], p[2]) =>
                  FLt(CellAt(depth_buffer, p[1], p[2]), CellAt(call.before[2], p[1], p[2]))

-----------------------------------------------------------------------------
(* The perspective projection, checked under SpecRotation.                 *)

\* The z a view-space point at depth d on the camera's axis is given.
ProjectedZ(planes, d) == ProjectPoint(planes, Vector3(Zero, Zero, FNeg(d))).z

\* C26: perspective followed by the homogeneous divide gives a view-space
\* point whose depth lies between z_near and z_far a z in (0, 1), increasing
\* with the depth, and a point nearer than z_near or farther than z_far a z
\* outside (0, 1); so a triangle between the planes passes the z-range check.
C26_PerspectiveNormalizesZ ==
    call.op = "project" =>
        LET d == FNeg(call.v.z)
            planes == <<call.z_near, call.z_far>>
        IN  /\ (FLt(call.z_near, d) /\ FLt(d, call.z_far)) =>
                  /\ FLt(Zero, call.ret.z) /\ FLt(call.ret.z, One)
                  /\ ~ZOutOfRange(Triangle(call.ret, call.ret, call.ret))
                  /\ \A z \in ViewZs :
                        (FLt(d, FNeg(z)) /\ FLt(FNeg(z), call.z_far)) =>
                            FLt(call.ret.z, ProjectedZ(planes, FNeg(z)))
            /\ (FLt(d, call.z_near) \/ FLt(call.z_far, d)) =>
                  ~(FLt(Zero, call.ret.z) /\ FLt(call.ret.z, One))

-----------------------------------------------------------------------------
(* The frame's output, checked under Spec, and the faces of a loaded       *)
(* model, checked under SpecLoad.                                          *)

\* C27: the terminal is cleared before the frame's grid text is printed, so
\* after the output of a frame (when the grid is about to be cleared for the
\* next frame) the terminal holds the text of the rendered grid.
C27_GridRemainsOnTerminal ==
    pc.at = "clear_grid" => terminal = <<Display(grid)>>

\* C30: every face of a model that Model::load returned references existing
\* data: its position indices lie in 1..Len(vertices), its present texcoord
\* and normal indices in 1..Len(tex_coords) and 1..Len(normals), and
\* Vertex::new on its vertices does not panic.
C30_FacesReferenceExistingData ==
    call.op = "resolve" =>
        /\ call.ret # Panicked
        /\ \A f \in 1..Len(call.model.data), k \in 1..3 :
              LET data == call.model.data[f][k]
              IN  /\ data.pos \in 1..Len(call.model.vertices)
                  /\ data.tex_coord # None =>
                        data.tex_coord[1] \in 1..Len(call.model.tex_coords)
                  /\ data.normal # None => data.normal[1] \in 1..Len(call.model.normals)

=============================================================================
